---- MODULE Spec2Model ----
(***************************************************************************)
(* Model of vali_utils/api/routes.py: the four HTTP handlers of the        *)
(* validator API (POST /query, GET /health, GET /labels/{source},          *)
(* GET /ages/{source}) and the dependency get_validator.                   *)
(*                                                                         *)
(* A call is a record; its pc is the place where the handler is suspended  *)
(* or about to run.  The query handler is cut at its await points (the     *)
(* dependency, entering the dendrite session, the forward, leaving the     *)
(* session); the two statistics handlers are cut at every storage          *)
(* operation, because the storage lock is shared with other threads.       *)
(*                                                                         *)
(* Strings are sequences of character codes, so that upper() and str()     *)
(* are computed and not assumed.                                           *)
(***************************************************************************)
EXTENDS Integers, Sequences, FiniteSets, TLC

(* ------------------------------ bounds -------------------------------- *)
NumCalls == 2
MaxUid == 2
MaxWeight == 2
MaxItem == 2
MaxPayloadLen == 3
MaxLimit == 2
HashBits == 2
MaxRows == 2
MaxBucket == 2
MaxSize == 2
MaxCred == 1
MaxLabel == 2

Calls == 1..NumCalls
Uids == 0..MaxUid
Weights == 1..MaxWeight
ItemVals == (-1)..MaxItem
Limits == 1..MaxLimit
Payloads == UNION {[1..n -> ItemVals] : n \in 0..MaxPayloadLen}

(* "x", "reddit", "foo" as character codes *)
Sources == {<<120>>, <<114, 101, 100, 100, 105, 116>>, <<102, 111, 111>>}

StatsOps == {"labels", "ages"}
Ops == {"query", "health"} \cup StatsOps

(* ------------------------- pure functions ----------------------------- *)

(* str.upper() on ASCII text *)
Upper(s) ==
    [i \in 1..Len(s) |-> IF s[i] >= 97 /\ s[i] <= 122 THEN s[i] - 32 ELSE s[i]]

(* The members of the DataSource enum: "REDDIT" = 1, "X" = 2 *)
DataSourceMembers ==
    {<<<<82, 69, 68, 68, 73, 84>>, 1>>, <<<<88>>, 2>>}

(* DataSource[name]: the member, or KeyError (0) *)
DataSourceLookup(name) ==
    IF \E m \in DataSourceMembers : m[1] = name
    THEN (CHOOSE m \in DataSourceMembers : m[1] = name)[2]
    ELSE 0

(* DataSource[source.upper()].value, 0 standing for the KeyError *)
SourceId(source) == DataSourceLookup(Upper(source))

(* utils.is_miner(uid, metagraph) *)
is_miner(uid, mgRole) == mgRole[uid] = "peer"

RECURSIVE UidsFrom(_, _, _)
UidsFrom(u, mgRole, my_uid) ==
    IF u > MaxUid THEN <<>>
    ELSE (IF is_miner(u, mgRole) /\ u # my_uid THEN <<u>> ELSE <<>>)
         \o UidsFrom(u + 1, mgRole, my_uid)

(* utils.get_miner_uids(metagraph, my_uid) *)
get_miner_uids(mgRole, my_uid) == UidsFrom(0, mgRole, my_uid)

RemoveAt(s, i) == SubSeq(s, 1, i - 1) \o SubSeq(s, i + 1, Len(s))

(* sorted(seq, key=..., reverse=True): stable, so among equal keys the     *)
(* earlier element stays first.                                            *)
RECURSIVE SortedDesc(_, _)
SortedDesc(s, key) ==
    IF s = <<>> THEN <<>>
    ELSE LET best == CHOOSE i \in 1..Len(s) :
                        /\ \A j \in 1..Len(s) : key[s[j]] <= key[s[i]]
                        /\ \A j \in 1..(i - 1) : key[s[j]] < key[s[i]]
         IN <<s[best]>> \o SortedDesc(RemoveAt(s, best), key)

(* sorted(miner_uids, key=I, reverse=True)[:len(miner_uids) // 2] *)
QualifiedMinersRoundedUp(miner_uids, I) ==
    SubSeq(SortedDesc(miner_uids, I), 1, (Len(miner_uids) + 1) \div 2)
QualifiedMinersUnsorted(miner_uids, I) ==
    SubSeq(miner_uids, 1, Len(miner_uids) \div 2)
QualifiedMiners(miner_uids, I) ==
    SubSeq(SortedDesc(miner_uids, I), 1, Len(miner_uids) \div 2)

RECURSIVE Digits(_)
Digits(n) == IF n < 10 THEN <<48 + n>> ELSE Digits(n \div 10) \o <<48 + (n % 10)>>

(* str(item) of an integer item *)
Str(item) == IF item < 0 THEN <<45>> \o Digits(-item) ELSE Digits(item)

RECURSIVE HashFrom(_, _)
HashFrom(h, s) ==
    IF s = <<>> THEN h
    ELSE HashFrom((h * 31 + Head(s)) % (2 ^ HashBits), Tail(s))

(* hash(string): a fixed-width function of the characters *)
Hash(s) == HashFrom(0, s)

(* item_hash = hash(str(item)) *)
ItemHash(item) == Hash(Str(item))

RECURSIVE Flatten(_)
Flatten(responses) ==
    IF responses = <<>> THEN <<>> ELSE Head(responses) \o Flatten(Tail(responses))

(* One pass of the inner loop body: item_hash not in seen => add, append *)
RECURSIVE MergeItems(_, _, _)
MergeItems(items, seen, all_data) ==
    IF items = <<>> THEN all_data
    ELSE LET item == Head(items)
             item_hash == ItemHash(item)
         IN IF item_hash \notin seen
            THEN MergeItems(Tail(items), seen \cup {item_hash}, Append(all_data, item))
            ELSE MergeItems(Tail(items), seen, all_data)

(* The "Process data" loops: all_data after both loops have run *)
MergeNoDedup(responses) == Flatten(responses)
MergeKeepLast(responses) ==
    LET flat == Flatten(responses)
        keep == {i \in 1..Len(flat) :
                    \A j \in (i + 1)..Len(flat) : ItemHash(flat[j]) # ItemHash(flat[i])}
        F[i \in 0..Len(flat)] ==
            IF i = 0 THEN <<>>
            ELSE IF i \in keep THEN Append(F[i - 1], flat[i]) ELSE F[i - 1]
    IN F[Len(flat)]
Merge(responses) == MergeItems(Flatten(responses), {}, <<>>)

(* all_data[:request.limit], Python slice semantics for any integer limit *)
SliceNone(all_data, limit) == all_data
Slice(all_data, limit) ==
    LET n == Len(all_data)
        stop == IF limit >= 0 THEN (IF limit < n THEN limit ELSE n)
                ELSE (IF n + limit > 0 THEN n + limit ELSE 0)
    IN SubSeq(all_data, 1, stop)

(* `except Exception as e: raise HTTPException(500, str(e))`: the status   *)
(* the handler delivers for an exception raised in its try body.  An       *)
(* HTTPException is an Exception, so it is caught like any other.          *)
query_data_except(exc) == 500
get_label_sizes_except(exc) == 500
get_age_sizes_except(exc) == 500

StatsExcept(op, exc) ==
    IF op = "labels" THEN get_label_sizes_except(exc) ELSE get_age_sizes_except(exc)

(* --------------------------- the statistics store --------------------- *)
(* Miner: minerId -> credibility, for the miners that have a row.          *)
(* MinerIndex and APILabelSize: rows in table order.  Sizes are integers   *)
(* and credibility is 0 or 1, the ends of its range, so the sums are       *)
(* exact.                                                                  *)
SourceIds == {m[2] : m \in DataSourceMembers}
MinerIds == 1..MaxUid
Creds == 0..MaxCred
Buckets == 1..MaxBucket
Sizes == 1..MaxSize
LabelValues == 1..MaxLabel

MinerTables == UNION {[S -> Creds] : S \in SUBSET MinerIds}
IndexRows ==
    [minerId : MinerIds, source : SourceIds, timeBucketId : Buckets,
     contentSizeBytes : Sizes]
LabelRows ==
    [source : SourceIds, labelValue : LabelValues, contentSizeBytes : Sizes,
     adjContentSizeBytes : Sizes]
TablesOf(Rows) == UNION {[1..n -> Rows] : n \in 0..MaxRows}

SampleStore ==
    [Miner |-> [m \in MinerIds |-> 1],
     MinerIndex |-> <<[minerId |-> 1, source |-> 1, timeBucketId |-> 1,
                      contentSizeBytes |-> 1]>>,
     APILabelSize |-> <<[source |-> 1, labelValue |-> 1, contentSizeBytes |-> 1,
                        adjContentSizeBytes |-> 1]>>]

RECURSIVE SumSeq(_)
SumSeq(s) == IF s = <<>> THEN 0 ELSE Head(s) + SumSeq(Tail(s))

(* FROM Miner JOIN MinerIndex USING (minerId) WHERE source = ? *)
AgeJoined(st, source_id) ==
    SelectSeq(st.MinerIndex,
              LAMBDA r : r.minerId \in DOMAIN st.Miner /\ r.source = source_id)

(* One result row of GROUP BY timeBucketId: timeBucketId,                  *)
(* SUM(contentSizeBytes), SUM(contentSizeBytes * credibility)              *)
AgeGroupRow(st, joined, b) ==
    LET grp == SelectSeq(joined, LAMBDA r : r.timeBucketId = b)
    IN <<b,
         SumSeq([i \in 1..Len(grp) |-> grp[i].contentSizeBytes]),
         SumSeq([i \in 1..Len(grp) |->
                    grp[i].contentSizeBytes * st.Miner[grp[i].minerId]])>>

RECURSIVE AgeOrderedDesc(_, _, _)
AgeOrderedDesc(st, joined, bs) ==
    IF bs = {} THEN <<>>
    ELSE LET b == CHOOSE x \in bs : \A y \in bs : y <= x
         IN <<AgeGroupRow(st, joined, b)>> \o AgeOrderedDesc(st, joined, bs \ {b})

RECURSIVE AgeOrderedAsc(_, _, _)
AgeOrderedAsc(st, joined, bs) ==
    IF bs = {} THEN <<>>
    ELSE LET b == CHOOSE x \in bs : \A y \in bs : x <= y
         IN <<AgeGroupRow(st, joined, b)>> \o AgeOrderedAsc(st, joined, bs \ {b})

(* The rows of the get_age_sizes SELECT: ... GROUP BY timeBucketId ORDER   *)
(* BY timeBucketId DESC                                                    *)
AgeQueryAscending(st, source_id) ==
    LET joined == AgeJoined(st, source_id)
    IN AgeOrderedAsc(st, joined, {joined[i].timeBucketId : i \in 1..Len(joined)})
AgeQuery(st, source_id) ==
    LET joined == AgeJoined(st, source_id)
    IN AgeOrderedDesc(st, joined, {joined[i].timeBucketId : i \in 1..Len(joined)})

(* AgeSize(time_bucket_id=row[0], content_size_bytes=row[1],               *)
(* adj_content_size_bytes=row[2])                                          *)
AgeSize(row) ==
    [time_bucket_id |-> row[1], content_size_bytes |-> row[2],
     adj_content_size_bytes |-> row[3]]

RowOrders(n) ==
    {p \in [1..n -> 1..n] : \A i, j \in 1..n : i # j => p[i] # p[j]}

(* SELECT labelValue, contentSizeBytes, adjContentSizeBytes FROM           *)
(* APILabelSize WHERE source = ?                                           *)
LabelSelected(st, source_id) ==
    LET sel == SelectSeq(st.APILabelSize, LAMBDA r : r.source = source_id)
    IN [i \in 1..Len(sel) |->
           <<sel[i].labelValue, sel[i].contentSizeBytes, sel[i].adjContentSizeBytes>>]

(* ... ORDER BY adjContentSizeBytes DESC: every order of the selected rows *)
(* that is descending in the third column; rows with equal values may come *)
(* in any order.                                                           *)
LabelQueryUnordered(st, source_id) == {LabelSelected(st, source_id)}
LabelQuery(st, source_id) ==
    LET sel == LabelSelected(st, source_id)
        n == Len(sel)
    IN {[i \in 1..n |-> sel[p[i]]] :
          p \in {q \in RowOrders(n) :
                   \A i \in 1..(n - 1) : sel[q[i]][3] >= sel[q[i + 1]][3]}}

(* LabelSize(label_value=row[0], content_size_bytes=row[1],                *)
(* adj_content_size_bytes=row[2])                                          *)
LabelSize(row) ==
    [label_value |-> row[1], content_size_bytes |-> row[2],
     adj_content_size_bytes |-> row[3]]

(* What cursor.fetchall() can deliver for the handler's query, as the list *)
(* of records the handler builds from it                                   *)
StatsResults(op, st, source_id) ==
    IF op = "labels"
    THEN {[i \in 1..Len(rows) |-> LabelSize(rows[i])] :
            rows \in LabelQuery(st, source_id)}
    ELSE LET rows == AgeQuery(st, source_id)
         IN {[i \in 1..Len(rows) |-> AgeSize(rows[i])]}

(* ------------------------------- state -------------------------------- *)
VARIABLES
    initialized,   \* hasattr(get_validator, 'api')
    mgRole,        \* metagraph: uid -> "peer" | "coordinator"
    mgI,           \* metagraph.I: uid -> trust weight
    lock,          \* storage.lock: 0 when free, else the holding call
    store,         \* the validator storage: Miner, MinerIndex, APILabelSize
    call           \* call -> its frame

vars == <<initialized, mgRole, mgI, lock, store, call>>

(* validator.uid: the caller's own place in the metagraph *)
MyUid == 0

NoMeta == [total_responses |-> 0, unique_items |-> 0,
           miners_queried |-> 0, total_miners |-> 0]

IdleCall ==
    [pc |-> "idle", op |-> "none", source |-> <<>>, limit |-> 0,
     injected |-> FALSE, selected |-> FALSE,
     miner_uids |-> <<>>, miners |-> <<>>, uid |-> -1,
     session |-> "none", invoked |-> 0, outcome |-> "none",
     responses |-> <<>>, data |-> <<>>, meta |-> NoMeta,
     is_healthy |-> FALSE, health_status |-> "none", miners_available |-> 0,
     acquired |-> 0, conn |-> "none", failed |-> "none", result |-> <<>>,
     status |-> 0]

Init ==
    /\ initialized = FALSE
    /\ mgRole = [u \in Uids |-> IF u = MyUid THEN "coordinator" ELSE "peer"]
    /\ mgI = [u \in Uids |-> 1]
    /\ lock = 0
    /\ store = SampleStore
    /\ call = [c \in Calls |-> IdleCall]

(* ------------------------------ actions ------------------------------- *)

Active(c) == call[c].pc \notin {"idle", "done"}

(* A request arrives and takes the first free frame.  The statistics       *)
(* handlers share the storage lock and are interleaved with each other; a  *)
(* query or health call shares nothing with another call and is followed   *)
(* on its own.                                                             *)
Arrive(c, op, source, limit) ==
    /\ call[c].pc = "idle"
    /\ \A d \in Calls : d < c => call[d].pc # "idle"
    /\ IF op \in StatsOps
       THEN \A d \in Calls \ {c} : call[d].op \in StatsOps \cup {"none"}
       ELSE \A d \in Calls \ {c} : call[d].pc = "idle"
    /\ source = <<>> <=> op = "health"
    /\ limit = 0 <=> op # "query"
    /\ call' = [call EXCEPT ![c] =
                   [IdleCall EXCEPT !.pc = "inject", !.op = op,
                                    !.source = source, !.limit = limit]]
    /\ UNCHANGED <<initialized, mgRole, mgI, lock, store>>

(* get_validator(): 503 if the api attribute is missing, else 0 for        *)
(* "returns the validator"                                                 *)
get_validator_unchecked(hasApi) == 0
get_validator(hasApi) == IF ~hasApi THEN 503 ELSE 0

FirstPc(op) ==
    CASE op = "query" -> "select"
      [] op = "health" -> "health"
      [] OTHER -> "validate"

(* Depends(get_validator): resolved before the handler body runs; its      *)
(* HTTPException is raised outside the handler's try.                      *)
Inject(c) ==
    /\ call[c].pc = "inject"
    /\ LET raised == get_validator(initialized)
           rec == call[c]
       IN call' = [call EXCEPT ![c] =
                      IF raised # 0
                      THEN [rec EXCEPT !.pc = "done", !.status = raised]
                      ELSE [rec EXCEPT !.pc = FirstPc(rec.op), !.injected = TRUE]]
    /\ UNCHANGED <<initialized, mgRole, mgI, lock, store>>

(* The api server sets get_validator.api *)
SetApi ==
    /\ ~initialized
    /\ initialized' = TRUE
    /\ UNCHANGED <<mgRole, mgI, lock, store, call>>

(* The validator resyncs validator.metagraph to a new snapshot.  A resync  *)
(* is followed only where a handler is about to read the metagraph: before *)
(* get_miner_uids and, across the await that enters the session, before    *)
(* is_miner.  Everywhere else it changes nothing a call can see.           *)
MetagraphSync(role, I) ==
    /\ \E c \in Calls : call[c].pc \in {"select", "health", "entered"}
    /\ I[MyUid] = mgI[MyUid]
    /\ <<role, I>> # <<mgRole, mgI>>
    /\ mgRole' = role
    /\ mgI' = I
    /\ UNCHANGED <<initialized, lock, store, call>>

(* query_data, from the start of its body to entering the dendrite         *)
(* session.                                                                *)
QuerySelected(rec, role, I) ==
    LET miner_uids == get_miner_uids(role, MyUid)
        miners == QualifiedMiners(miner_uids, I)
        sel == [rec EXCEPT !.selected = TRUE, !.miner_uids = miner_uids,
                           !.miners = miners]
    IN IF miners = <<>>
       THEN [sel EXCEPT !.pc = "done", !.status = query_data_except(503)]
       ELSE IF SourceId(rec.source) = 0
       THEN [sel EXCEPT !.pc = "done", !.status = query_data_except(0)]
       ELSE [sel EXCEPT !.pc = "entered", !.session = "open"]

QuerySelect(c) ==
    /\ call[c].pc = "select"
    /\ call' = [call EXCEPT ![c] = QuerySelected(@, mgRole, mgI)]
    /\ UNCHANGED <<initialized, mgRole, mgI, lock, store>>

SeqRange(s) == {s[i] : i \in 1..Len(s)}

(* What dendrite.forward can deliver: an exception (timeout or transport   *)
(* error), a falsy response, or a response with a data payload.            *)
Outcomes ==
    {[kind |-> "raise", data |-> <<>>], [kind |-> "none", data |-> <<>>]}
    \cup {[kind |-> "response", data |-> p] : p \in Payloads}

(* `async with bt.dendrite(...) as dendrite`: leaving the block, normally   *)
(* or not, closes the session                                              *)
aexit_leak(session) == session
aexit(session) == "closed"

(* The session block is left, the data is processed and returned:          *)
(* lines 74-92                                                             *)
QueryReturned(rec) ==
    LET all_data == Merge(rec.responses)
    IN [rec EXCEPT !.session = aexit(@), !.pc = "done", !.status = 200,
                   !.data = Slice(all_data, rec.limit),
                   !.meta = [total_responses |-> Len(rec.responses),
                             unique_items |-> Len(all_data),
                             miners_queried |-> Len(rec.miners),
                             total_miners |-> Len(rec.miner_uids)]]

(* uid = random.choice(miner_uids) and the is_miner check.  The forward is *)
(* issued and the call is suspended in it; or no forward is issued, and    *)
(* the call goes on to leave the session and return.                       *)
QueryDispatched(rec, uid, role) ==
    IF is_miner(uid, role)
    THEN [rec EXCEPT !.uid = uid, !.invoked = @ + 1, !.pc = "awaiting"]
    ELSE QueryReturned([rec EXCEPT !.uid = uid])

(* The population random.choice draws from: miner_uids, the whole eligible *)
(* list, not the qualified miners                                          *)
ChoicePoolQualified(rec) == SeqRange(rec.miners)
ChoicePool(rec) == SeqRange(rec.miner_uids)

QueryDispatch(c, uid) ==
    /\ call[c].pc = "entered"
    /\ uid \in ChoicePool(call[c])
    /\ call' = [call EXCEPT ![c] = QueryDispatched(@, uid, mgRole)]
    /\ UNCHANGED <<initialized, mgRole, mgI, lock, store>>

(* The forward returns or raises (lines 60-68); the inner except absorbs   *)
(* the exception; the call goes on to leave the session and return.        *)
QueryRepliedUncaught(rec, outcome) ==
    IF outcome.kind = "raise"
    THEN [rec EXCEPT !.outcome = "raise", !.session = "closed", !.pc = "done",
                     !.status = query_data_except(0)]
    ELSE QueryReturned(
           [rec EXCEPT !.outcome = outcome.kind,
                       !.responses = IF outcome.kind = "response" /\ outcome.data # <<>>
                                     THEN Append(@, outcome.data) ELSE @])
QueryRepliedRetry(rec, outcome) ==
    IF outcome.kind = "raise"
    THEN [rec EXCEPT !.outcome = "raise", !.pc = "entered"]
    ELSE QueryReturned(
           [rec EXCEPT !.outcome = outcome.kind,
                       !.responses = IF outcome.kind = "response" /\ outcome.data # <<>>
                                     THEN Append(@, outcome.data) ELSE @])
QueryReplied(rec, outcome) ==
    QueryReturned(
      [rec EXCEPT !.outcome = outcome.kind,
                  !.responses = IF outcome.kind = "response" /\ outcome.data # <<>>
                                THEN Append(@, outcome.data) ELSE @])

QueryReply(c, outcome) ==
    /\ call[c].pc = "awaiting"
    /\ call' = [call EXCEPT ![c] = QueryReplied(@, outcome)]
    /\ UNCHANGED <<initialized, mgRole, mgI, lock, store>>

(* health_check; is_healthy() is an external predicate, whose value the    *)
(* frame keeps beside the response.                                        *)
HealthReturnedAlwaysHealthy(rec, role, is_healthy) ==
    [rec EXCEPT !.pc = "done", !.status = 200, !.is_healthy = is_healthy,
                !.health_status = "healthy",
                !.miners_available = Len(get_miner_uids(role, MyUid))]
HealthReturned(rec, role, is_healthy) ==
    [rec EXCEPT !.pc = "done", !.status = 200, !.is_healthy = is_healthy,
                !.health_status = IF is_healthy THEN "healthy" ELSE "unhealthy",
                !.miners_available = Len(get_miner_uids(role, MyUid))]

HealthCheck(c, is_healthy) ==
    /\ call[c].pc = "health"
    /\ call' = [call EXCEPT ![c] = HealthReturned(@, mgRole, is_healthy)]
    /\ UNCHANGED <<initialized, mgRole, mgI, lock, store>>

(* get_label_sizes / get_age_sizes: the source is validated.  The 400 is   *)
(* raised inside the handler's outer try.                                  *)
StatsValidated(rec) ==
    IF SourceId(rec.source) = 0
    THEN [rec EXCEPT !.pc = "done", !.status = StatsExcept(rec.op, 400)]
    ELSE [rec EXCEPT !.pc = "acquire"]

StatsValidate(c) ==
    /\ call[c].pc = "validate"
    /\ call' = [call EXCEPT ![c] = StatsValidated(@)]
    /\ UNCHANGED <<initialized, mgRole, mgI, lock, store>>

(* storage.lock: __enter__ blocks until the lock is free; __exit__ runs    *)
(* when the with block is left, by return or by exception.                 *)
lock_free_always(l) == TRUE
lock_free(l) == l = 0

with_exit_held(l) == l
with_exit(l) == 0

StatsAcquire(c) ==
    /\ call[c].pc = "acquire"
    /\ lock_free(lock)
    /\ lock' = c
    /\ call' = [call EXCEPT ![c] = [@ EXCEPT !.pc = "connect", !.acquired = @ + 1]]
    /\ UNCHANGED <<initialized, mgRole, mgI, store>>

(* A storage operation inside the with block raises: the block is left,    *)
(* the outer except turns the exception into a 500.  Nothing closes the    *)
(* connection on this path.                                                *)
StatsRaised(rec, at) ==
    [rec EXCEPT !.pc = "done", !.failed = at, !.status = StatsExcept(rec.op, 0)]

(* connection = storage._create_connection() *)
StatsConnect(c, ok) ==
    /\ call[c].pc = "connect"
    /\ IF ok
       THEN /\ call' = [call EXCEPT ![c] = [@ EXCEPT !.pc = "cursor", !.conn = "open"]]
            /\ UNCHANGED lock
       ELSE /\ call' = [call EXCEPT ![c] = StatsRaised(@, "connect")]
            /\ lock' = with_exit(lock)
    /\ UNCHANGED <<initialized, mgRole, mgI, store>>

(* cursor = connection.cursor() *)
StatsCursor(c, ok) ==
    /\ call[c].pc = "cursor"
    /\ IF ok
       THEN /\ call' = [call EXCEPT ![c] = [@ EXCEPT !.pc = "execute"]]
            /\ UNCHANGED lock
       ELSE /\ call' = [call EXCEPT ![c] = StatsRaised(@, "cursor")]
            /\ lock' = with_exit(lock)
    /\ UNCHANGED <<initialized, mgRole, mgI, store>>

(* cursor.execute(SELECT ...) *)
StatsExecute(c, ok) ==
    /\ call[c].pc = "execute"
    /\ IF ok
       THEN /\ call' = [call EXCEPT ![c] = [@ EXCEPT !.pc = "fetch"]]
            /\ UNCHANGED lock
       ELSE /\ call' = [call EXCEPT ![c] = StatsRaised(@, "execute")]
            /\ lock' = with_exit(lock)
    /\ UNCHANGED <<initialized, mgRole, mgI, store>>

(* cursor.fetchall() and the list of LabelSize / AgeSize records: "fetch"  *)
(* when fetchall raises, "build" when a record constructor does.           *)
StatsFetch(c, res) ==
    /\ call[c].pc = "fetch"
    /\ IF res = "ok"
       THEN /\ \E records \in StatsResults(call[c].op, store, SourceId(call[c].source)) :
                  call' = [call EXCEPT ![c] = [@ EXCEPT !.pc = "close",
                                                        !.result = records]]
            /\ UNCHANGED lock
       ELSE /\ call' = [call EXCEPT ![c] = StatsRaised(@, res)]
            /\ lock' = with_exit(lock)
    /\ UNCHANGED <<initialized, mgRole, mgI, store>>

(* connection.close(); return: the with block is left *)
StatsReturn(c) ==
    /\ call[c].pc = "close"
    /\ call' = [call EXCEPT ![c] = [@ EXCEPT !.pc = "done", !.conn = "closed",
                                             !.status = 200]]
    /\ lock' = with_exit(lock)
    /\ UNCHANGED <<initialized, mgRole, mgI, store>>

Next ==
    \/ SetApi
    \/ \E role \in [Uids -> {"peer", "coordinator"}], I \in [Uids -> Weights] :
          MetagraphSync(role, I)
    \/ \E c \in Calls :
        \/ \E op \in Ops, source \in Sources \cup {<<>>}, limit \in Limits \cup {0} :
              Arrive(c, op, source, limit)
        \/ Inject(c)
        \/ QuerySelect(c)
        \/ \E uid \in Uids : QueryDispatch(c, uid)
        \/ \E outcome \in Outcomes : QueryReply(c, outcome)
        \/ \E h \in BOOLEAN : HealthCheck(c, h)
        \/ StatsValidate(c)
        \/ StatsAcquire(c)
        \/ \E ok \in BOOLEAN : StatsConnect(c, ok)
        \/ \E ok \in BOOLEAN : StatsCursor(c, ok)
        \/ \E ok \in BOOLEAN : StatsExecute(c, ok)
        \/ \E res \in {"ok", "fetch", "build"} : StatsFetch(c, res)
        \/ StatsReturn(c)

Spec == Init /\ [][Next]_vars

(* Every handler that can take a step eventually takes it; the lock is     *)
(* released by every handler that acquired it, so weak fairness is enough  *)
(* for a bounded number of calls.                                          *)
Progress(c) ==
    \/ Inject(c)
    \/ QuerySelect(c)
    \/ \E uid \in Uids : QueryDispatch(c, uid)
    \/ \E outcome \in Outcomes : QueryReply(c, outcome)
    \/ \E h \in BOOLEAN : HealthCheck(c, h)
    \/ StatsValidate(c)
    \/ StatsAcquire(c)
    \/ \E ok \in BOOLEAN : StatsConnect(c, ok)
    \/ \E ok \in BOOLEAN : StatsCursor(c, ok)
    \/ \E ok \in BOOLEAN : StatsExecute(c, ok)
    \/ \E res \in {"ok", "fetch", "build"} : StatsFetch(c, res)
    \/ StatsReturn(c)

FairSpec == Spec /\ \A c \in Calls : WF_vars(Progress(c))

(* ------------------------------ claims -------------------------------- *)

Done(c) == call[c].pc = "done"

GuardedPcs == {"connect", "cursor", "execute", "fetch", "close"}

(* The call is between acquiring the storage lock and leaving the with     *)
(* block: it has a connection open or a storage operation under way.       *)
InGuardedBlock(c) ==
    Active(c) /\ (call[c].pc \in GuardedPcs \/ call[c].conn = "open")

(* C1 as stated: a labels or ages call that passed the injection point     *)
(* with a source that maps to no DataSource member ends with status 400.   *)
C1_UnknownSourceIs400 ==
    \A c \in Calls :
        (Done(c) /\ call[c].op \in StatsOps /\ call[c].injected
         /\ SourceId(call[c].source) = 0)
        => call[c].status = 400

(* C2 as stated: a query call that found the eligible peer set empty ends  *)
(* with status 503.                                                        *)
C2_NoEligiblePeersIs503 ==
    \A c \in Calls :
        (Done(c) /\ call[c].op = "query" /\ call[c].selected
         /\ call[c].miner_uids = <<>>)
        => call[c].status = 503

(* C3: at most one labels/ages call is inside the guarded block at any     *)
(* instant, and the lock names that call.                                  *)
C3_OneReaderAtATime ==
    /\ Cardinality({c \in Calls : InGuardedBlock(c)}) <= 1
    /\ \A c \in Calls : InGuardedBlock(c) => lock = c

C3_Witness ==
    \E c, d \in Calls :
        /\ call[c].op = "labels" /\ call[c].pc = "execute" /\ call[c].conn = "open"
        /\ call[d].op = "ages" /\ call[d].pc = "acquire"

(* C4 as stated: no finished call has its connection still open.           *)
C4_ConnectionClosedOnReturn ==
    \A c \in Calls : Done(c) => call[c].conn # "open"

(* C5: a finished call never holds the storage lock, on the success path   *)
(* and on every failure path, and a call waiting for the lock eventually   *)
(* acquires it.                                                            *)
C5_LockReleased ==
    /\ [](\A c \in Calls : Done(c) => lock # c)
    /\ \A c \in Calls : (call[c].pc = "acquire") ~> (call[c].acquired = 1)

C5_Witness ==
    \E c, d \in Calls :
        /\ Done(c) /\ call[c].failed = "connect" /\ call[c].acquired = 1
        /\ call[d].pc = "connect" /\ lock = d

(* C6: when the forward raises (timeout or transport error), the query     *)
(* call still returns success, with no data and total_responses = 0.       *)
C6_PeerFailureAbsorbed ==
    \A c \in Calls :
        (Done(c) /\ call[c].op = "query" /\ call[c].outcome = "raise")
        => /\ call[c].status = 200
           /\ call[c].data = <<>>
           /\ call[c].meta.total_responses = 0
           /\ call[c].meta.unique_items = 0

C6_Witness ==
    \E c \in Calls :
        /\ Done(c) /\ call[c].op = "query" /\ call[c].outcome = "raise"
        /\ call[c].invoked = 1 /\ call[c].status = 200

(* C7: no two items of the data of a successful query response have the    *)
(* same content-identity hash.                                             *)
C7_NoSharedIdentity ==
    \A c \in Calls :
        (Done(c) /\ call[c].op = "query" /\ call[c].status = 200)
        => \A i, j \in 1..Len(call[c].data) :
              i # j => ItemHash(call[c].data[i]) # ItemHash(call[c].data[j])

(* A payload with a repeated item and with two different items of one      *)
(* identity, answered with two items.                                      *)
C7_Witness ==
    \E c \in Calls :
        /\ Done(c) /\ call[c].op = "query" /\ call[c].status = 200
        /\ Len(call[c].responses) = 1
        /\ \E i, j \in 1..Len(call[c].responses[1]) :
              /\ i # j
              /\ call[c].responses[1][i] # call[c].responses[1][j]
              /\ ItemHash(call[c].responses[1][i]) = ItemHash(call[c].responses[1][j])
        /\ Len(call[c].data) = 2

(* C8: the data of a successful query response has at most request.limit   *)
(* items (limit > 0).                                                      *)
C8_AtMostLimit ==
    \A c \in Calls :
        (Done(c) /\ call[c].op = "query" /\ call[c].status = 200 /\ call[c].limit > 0)
        => Len(call[c].data) <= call[c].limit

C8_Witness ==
    \E c \in Calls :
        /\ Done(c) /\ call[c].op = "query" /\ call[c].status = 200
        /\ call[c].meta.unique_items > call[c].limit
        /\ Len(call[c].data) = call[c].limit

(* C9: a call that reaches the injection point while the api attribute is  *)
(* missing ends there with status 503: nothing else of its frame changes,  *)
(* and the lock is not touched.                                            *)
C9_UninitializedIs503 ==
    [][\A c \in Calls :
          (call[c].pc = "inject" /\ ~initialized /\ call'[c] # call[c])
          => /\ call'[c] = [call[c] EXCEPT !.pc = "done", !.status = 503]
             /\ ~call[c].selected /\ call[c].invoked = 0 /\ call[c].acquired = 0
             /\ call[c].conn = "none" /\ call[c].session = "none"
             /\ lock' = lock]_vars

C9_Witness ==
    \E c, d \in Calls :
        /\ ~initialized
        /\ Done(c) /\ call[c].op = "labels" /\ call[c].status = 503
        /\ Done(d) /\ call[d].op = "ages" /\ call[d].status = 503
        /\ ~call[c].injected /\ ~call[d].injected

(* The positions of the flattened payloads that hold the first occurrence  *)
(* of their identity.                                                      *)
FirstOccurrences(flat) ==
    {i \in 1..Len(flat) : \A j \in 1..(i - 1) : ItemHash(flat[j]) # ItemHash(flat[i])}

(* C10: data is the first min(limit, u) items of the flattened payloads    *)
(* restricted to first occurrences, in arrival order, and unique_items is  *)
(* u, the number of first occurrences.                                     *)
C10_FirstSeenThenTruncated ==
    \A c \in Calls :
        (Done(c) /\ call[c].op = "query" /\ call[c].status = 200 /\ call[c].limit > 0)
        => LET flat == Flatten(call[c].responses)
               first == FirstOccurrences(flat)
               u == Cardinality(first)
               n == IF call[c].limit < u THEN call[c].limit ELSE u
           IN /\ call[c].meta.unique_items = u
              /\ Len(call[c].data) = n
              /\ \A k \in 1..n :
                    \E i \in first :
                        /\ Cardinality({j \in first : j <= i}) = k
                        /\ call[c].data[k] = flat[i]

(* One payload of three items, two of them identical, limit 2: two unique  *)
(* items, two data items.                                                  *)
C10_Witness ==
    \E c \in Calls :
        /\ Done(c) /\ call[c].op = "query" /\ call[c].status = 200
        /\ call[c].limit = 2
        /\ Len(call[c].responses) = 1
        /\ Len(call[c].responses[1]) = 3
        /\ call[c].responses[1][1] = call[c].responses[1][3]
        /\ call[c].responses[1][1] # call[c].responses[1][2]
        /\ call[c].meta.unique_items = 2
        /\ Len(call[c].data) = 2

(* The eligible peers of a metagraph: non-coordinator peers other than the *)
(* caller.                                                                 *)
Eligible(role) == {u \in Uids : u # MyUid /\ role[u] = "peer"}

(* C11 as stated: in a successful query response miners_queried is the     *)
(* number of remote invocations issued, total_responses the number of      *)
(* peers that answered with a non-empty payload, total_miners the number   *)
(* of eligible peers the call found.                                       *)
C11_MetaCounts ==
    \A c \in Calls :
        (Done(c) /\ call[c].op = "query" /\ call[c].status = 200)
        => /\ call[c].meta.miners_queried = call[c].invoked
           /\ call[c].meta.total_responses =
                 (IF call[c].outcome = "response" /\ Flatten(call[c].responses) # <<>>
                  THEN 1 ELSE 0)
           /\ call[c].meta.total_miners = Len(call[c].miner_uids)

(* C12: when a query call computes its qualified set from n eligible peers, *)
(* the set has floor(n / 2) members, all of them eligible, and no peer     *)
(* left out has a larger trust weight than a qualified one.                *)
C12_QualifiedTopHalf ==
    [][\A c \in Calls :
          (call[c].pc = "select" /\ call'[c].pc # "select")
          => LET el == Eligible(mgRole)
                 n == Cardinality(el)
                 q == SeqRange(call'[c].miners)
             IN /\ SeqRange(call'[c].miner_uids) = el
                /\ Len(call'[c].miners) = n \div 2
                /\ Cardinality(q) = n \div 2
                /\ q \subseteq el
                /\ \A a \in q, b \in el \ q : mgI[a] >= mgI[b]]_vars

(* Peers 1 and 2 eligible, 2 with the larger weight: qualified = {2} *)
C12_Witness ==
    \E c \in Calls :
        /\ call[c].pc = "entered"
        /\ call[c].miner_uids = <<1, 2>>
        /\ call[c].miners = <<2>>
        /\ mgI[2] > mgI[1]
        /\ Eligible(mgRole) = {1, 2}

(* C13: a health call that passed the injection point returns normally;   *)
(* miners_available is the number of eligible peers at that moment, status *)
(* is "healthy" exactly when the liveness predicate is true and            *)
(* "unhealthy" otherwise, and nothing but the call's own frame changes.    *)
C13_HealthMirrorsState ==
    [][\A c \in Calls :
          (call[c].pc = "health" /\ call'[c] # call[c])
          => /\ call'[c].pc = "done"
             /\ call'[c].status = 200
             /\ call'[c].miners_available = Cardinality(Eligible(mgRole))
             /\ call'[c].health_status \in {"healthy", "unhealthy"}
             /\ call'[c].health_status = "healthy" <=> call'[c].is_healthy
             /\ UNCHANGED <<initialized, mgRole, mgI, lock, store>>
             /\ \A d \in Calls \ {c} : call'[d] = call[d]]_vars

(* No eligible peer and a false liveness predicate: 0 and "unhealthy" *)
C13_Witness ==
    \E c \in Calls :
        /\ Done(c) /\ call[c].op = "health" /\ call[c].status = 200
        /\ Eligible(mgRole) = {}
        /\ call[c].miners_available = 0
        /\ ~call[c].is_healthy
        /\ call[c].health_status = "unhealthy"

C18_SessionScopedToCall ==
    /\ [](\A c \in Calls :
             /\ Done(c) => call[c].session # "open"
             /\ call[c].session # "none" => (call[c].selected /\ call[c].miners # <<>>))
    /\ [][\A c \in Calls :
             call'[c].session # call[c].session
             => \/ call[c].session = "none" /\ call'[c].session = "open"
                \/ call[c].session = "open" /\ call'[c].session = "closed"]_vars

(* The chosen peer failed the is_miner check: no invocation, session       *)
(* closed, call returned                                                   *)
C18_Witness ==
    \E c \in Calls :
        /\ Done(c) /\ call[c].op = "query" /\ call[c].status = 200
        /\ call[c].uid # -1 /\ call[c].invoked = 0
        /\ call[c].session = "closed"

FirstCall == CHOOSE c \in Calls : \A d \in Calls : c <= d

StoreInit(st) ==
    /\ initialized = TRUE
    /\ mgRole = [u \in Uids |-> IF u = MyUid THEN "coordinator" ELSE "peer"]
    /\ mgI = [u \in Uids |-> 1]
    /\ lock = 0
    /\ store = st
    /\ call = [c \in Calls |-> IdleCall]

StatsAlone(op) ==
    \/ \E source \in Sources : Arrive(FirstCall, op, source, 0)
    \/ Inject(FirstCall)
    \/ StatsValidate(FirstCall)
    \/ StatsAcquire(FirstCall)
    \/ StatsConnect(FirstCall, TRUE)
    \/ StatsCursor(FirstCall, TRUE)
    \/ StatsExecute(FirstCall, TRUE)
    \/ StatsFetch(FirstCall, "ok")
    \/ StatsReturn(FirstCall)

AgeInit ==
    \E miner \in MinerTables, index \in TablesOf(IndexRows) :
        StoreInit([Miner |-> miner, MinerIndex |-> index, APILabelSize |-> <<>>])

AgeNext == StatsAlone("ages")

AgeSpec == AgeInit /\ [][AgeNext]_vars

LabelInit ==
    \E labels \in TablesOf(LabelRows) :
        StoreInit([Miner |-> <<>>, MinerIndex |-> <<>>, APILabelSize |-> labels])

LabelNext == StatsAlone("labels")

LabelSpec == LabelInit /\ [][LabelNext]_vars

RECURSIVE SumOver(_, _)
SumOver(S, f) ==
    IF S = {} THEN 0
    ELSE LET x == CHOOSE y \in S : TRUE IN f[x] + SumOver(S \ {x}, f)

(* C14: a successful ages call returns one record per time bucket that has *)
(* a MinerIndex row of the source whose miner has a Miner row, with the    *)
(* sum of the rows' sizes and the sum of size times credibility, in        *)
(* strictly descending order of time_bucket_id.                            *)
C14_AgeSizesPerBucketDescending ==
    \A c \in Calls :
        (Done(c) /\ call[c].op = "ages" /\ call[c].status = 200)
        => LET sid == SourceId(call[c].source)
               index == store.MinerIndex
               entries == {i \in 1..Len(index) :
                              /\ index[i].source = sid
                              /\ index[i].minerId \in DOMAIN store.Miner}
               buckets == {index[i].timeBucketId : i \in entries}
               of(b) == {i \in entries : index[i].timeBucketId = b}
               size == [i \in entries |-> index[i].contentSizeBytes]
               adj == [i \in entries |->
                          index[i].contentSizeBytes * store.Miner[index[i].minerId]]
               res == call[c].result
           IN /\ Len(res) = Cardinality(buckets)
              /\ \A k \in 1..Len(res) :
                    /\ res[k].time_bucket_id \in buckets
                    /\ res[k].content_size_bytes = SumOver(of(res[k].time_bucket_id), size)
                    /\ res[k].adj_content_size_bytes = SumOver(of(res[k].time_bucket_id), adj)
              /\ \A k \in 1..(Len(res) - 1) :
                    res[k].time_bucket_id > res[k + 1].time_bucket_id

(* Two buckets stored oldest first, returned newest first; the newer row   *)
(* belongs to a miner of credibility 0, the older to one of credibility 1. *)
C14_Witness ==
    \E c \in Calls :
        /\ Done(c) /\ call[c].op = "ages" /\ call[c].status = 200
        /\ Len(store.MinerIndex) = 2
        /\ store.MinerIndex[1].timeBucketId < store.MinerIndex[2].timeBucketId
        /\ Len(call[c].result) = 2
        /\ call[c].result[1].time_bucket_id = store.MinerIndex[2].timeBucketId
        /\ call[c].result[1].adj_content_size_bytes = 0
        /\ call[c].result[2].adj_content_size_bytes > 0

(* C15: a successful labels call returns exactly the APILabelSize rows of  *)
(* the source, each as often as it is stored, none of another source, with *)
(* adj_content_size_bytes non-increasing along the list.                   *)
C15_LabelSizesOfSourceDescending ==
    \A c \in Calls :
        (Done(c) /\ call[c].op = "labels" /\ call[c].status = 200)
        => LET sid == SourceId(call[c].source)
               table == store.APILabelSize
               rows == {i \in 1..Len(table) : table[i].source = sid}
               rec(i) == [label_value |-> table[i].labelValue,
                          content_size_bytes |-> table[i].contentSizeBytes,
                          adj_content_size_bytes |-> table[i].adjContentSizeBytes]
               res == call[c].result
           IN /\ Len(res) = Cardinality(rows)
              /\ \A i \in rows :
                    Cardinality({k \in 1..Len(res) : res[k] = rec(i)})
                    = Cardinality({j \in rows : rec(j) = rec(i)})
              /\ \A k \in 1..(Len(res) - 1) :
                    res[k].adj_content_size_bytes >= res[k + 1].adj_content_size_bytes

(* Two rows of the source stored smallest first, returned largest first *)
C15_Witness ==
    \E c \in Calls :
        /\ Done(c) /\ call[c].op = "labels" /\ call[c].status = 200
        /\ Len(store.APILabelSize) = 2
        /\ store.APILabelSize[1].adjContentSizeBytes
           < store.APILabelSize[2].adjContentSizeBytes
        /\ Len(call[c].result) = 2
        /\ call[c].result[1].label_value = store.APILabelSize[2].labelValue
        /\ call[c].result[1].adj_content_size_bytes
           > call[c].result[2].adj_content_size_bytes

====
